---- MODULE Spec2Model ----
(***************************************************************************)
(* Model of intel_hex_parser.py: the SortedDict range map, merge_data,     *)
(* the Intel HEX record parser (parse_file) and writer (write,             *)
(* generate_data_records).                                                 *)
(*                                                                         *)
(* A text line is a sequence of one-character strings.  An optional value  *)
(* (Python None or a value) is the empty sequence or a one-element         *)
(* sequence, written None or Some(v).  A SortedDict is a record            *)
(* [dict |-> function, keys |-> list]: the underlying dict and the cached  *)
(* sorted key list _keys.  Integers are explored below 2^31.               *)
(***************************************************************************)
EXTENDS Integers, Sequences, FiniteSets, TLC

VARIABLES
    data,            \* parse_file / merge_data: the underlying dict of the SortedDict
    keys,            \* the SortedDict's cached key list (_keys)
    new_entry,       \* argument of the last merge_data / __setitem__ call
    error,           \* kind of the exception raised by the last operation, or "none"
    nops,            \* number of SortedDict operations the direct driver has made
    pc,              \* which call is running
    hex_format,      \* parse_file: requested, then detected, sub-format
    strict,          \* parse_file: strict flag
    encountered_eof, \* parse_file: an EOF record has been consumed
    address_offset,  \* parse_file: offset set by the last extended-address record
    entry_point,     \* parse_file: entry point, None until a record sets it
    record,          \* parse_file: the line consumed last, whitespace removed
    lineno,          \* parse_file: number of lines consumed (enumerate index i)
    starts,          \* absolute start addresses of the data records handed to merge_data
    detected_format, \* read_from_file: sub-format returned to the caller
    requested_format, \* read_from_file: the hex_format argument of the caller
    self_data,       \* write: self.data, the dict of the image being written
    self_keys,       \* write: self.data._keys
    self_entry,      \* write: self.entry_point
    line_length,     \* write: line_length argument
    file,            \* the lines written to the file so far
    offset,          \* write: offset applied by the last extended-address record
    kidx,            \* write: number of keys the for loop has taken
    start_address,   \* generate_data_records: start_address argument
    chunk,           \* generate_data_records: chunk argument
    index,           \* generate_data_records: index
    applied_offset,  \* generate_data_records: applied_offset
    hex_obj_in,      \* _test_file: the image the conversions started from
    chain,           \* _test_file: the target formats of the successive writes
    hop,             \* _test_file: number of write / read back rounds completed
    test_list,       \* test_gt: the sorted list searched
    num,             \* test_gt: the next search term of the loop
    found_lt,        \* test_gt: what find_lt returned for the last search term
    found_gt         \* test_gt: what find_gt returned for the last search term

mapVars == <<data, keys, new_entry, error>>

parseVars == <<hex_format, strict, encountered_eof, address_offset, entry_point,
               record, lineno, starts, detected_format, requested_format>>

writeVars == <<self_data, self_keys, self_entry, line_length, file, offset, kidx,
               start_address, chunk, index, applied_offset>>

testVars == <<hex_obj_in, chain, hop>>

findVars == <<test_list, num, found_lt, found_gt>>

vars == <<data, keys, new_entry, error, nops, pc, hex_format, strict,
          encountered_eof, address_offset, entry_point, record, lineno, starts,
          detected_format, requested_format, self_data, self_keys, self_entry,
          line_length, file, offset, kidx, start_address, chunk, index,
          applied_offset, hex_obj_in, chain, hop, test_list, num, found_lt,
          found_gt>>

-----------------------------------------------------------------------------
(* Bounds of the range-map exploration *)

MaxAddr == 5
MaxKeys == 3
MaxOps == 3
MaxLines == 3

Payloads == {<<>>, <<17>>, <<34, 51>>}

Entries == {<<a, p>> : a \in 0..MaxAddr, p \in Payloads}

-----------------------------------------------------------------------------
(* Python values *)

None == <<>>

Some(v) == <<v>>

EmptyDict == [k \in {} |-> <<>>]

-----------------------------------------------------------------------------
(* Text: a string is a sequence of one-character strings *)

HexDigits == <<"0", "1", "2", "3", "4", "5", "6", "7",
               "8", "9", "A", "B", "C", "D", "E", "F">>

HexChar(v) == HexDigits[v + 1]

IsHexChar(c) == \E v \in 0..15 : HexDigits[v + 1] = c

HexVal(c) == CHOOSE v \in 0..15 : HexDigits[v + 1] = c

Min(a, b) == IF a < b THEN a ELSE b

Max(a, b) == IF a > b THEN a ELSE b

(* text[a:b] for 0 <= a, 0 <= b: positions a..b-1, clipped to the text *)
Slice(text, a, b) == SubSeq(text, a + 1, Min(b, Len(text)))

(* text[-2:] *)
LastTwo(text) == Slice(text, Max(Len(text) - 2, 0), Len(text))

(* text[1:-2] *)
Body(text) == Slice(text, 1, Max(Len(text) - 2, 0))

(* int(text, 16) raises ValueError on an empty text or a non-hex character *)
IntOk(text) == text # <<>> /\ \A i \in 1..Len(text) : IsHexChar(text[i])

RECURSIVE Int16(_)
Int16(text) ==
    IF text = <<>> THEN 0
    ELSE Int16(SubSeq(text, 1, Len(text) - 1)) * 16 + HexVal(text[Len(text)])

(* "{:X}".format(n), n >= 0 *)
RECURSIVE ToHex(_)
ToHex(n) ==
    IF n < 16 THEN <<HexChar(n)>>
    ELSE ToHex(n \div 16) \o <<HexChar(n % 16)>>

RECURSIVE Zeros(_)
Zeros(n) == IF n <= 0 THEN <<>> ELSE <<"0">> \o Zeros(n - 1)

(* "{:0wX}".format(n): at least w digits, more when n needs them *)
FormatHex(n, w) == Zeros(w - Len(ToHex(n))) \o ToHex(n)

(* "".join(record.split()) *)
StripWhitespace(line) == SelectSeq(line, LAMBDA c : c \notin {" ", "\n", "\t", "\r"})

(* split_string(text, 2) *)
RECURSIVE split_string2(_)
split_string2(text) ==
    IF text = <<>> THEN <<>>
    ELSE <<Slice(text, 0, 2)>> \o split_string2(Slice(text, 2, Len(text)))

RECURSIVE SumBytes(_)
SumBytes(chunks) ==
    IF chunks = <<>> THEN 0
    ELSE Int16(Head(chunks)) + SumBytes(Tail(chunks))

(* [int(el, 16) for el in split_string(text, 2)] *)
BytesOf(text) == [i \in 1..Len(split_string2(text)) |-> Int16(split_string2(text)[i])]

HexTextOk(text) == \A i \in 1..Len(text) : IsHexChar(text[i])

(* generate_checksum: ((sum & 0xFF) ^ 0xFF) + 1) & 0xFF; on a byte x the   *)
(* exclusive or with 0xFF is 255 - x                                       *)
generate_checksum(semi_record) ==
    LET data_sum_lsb == SumBytes(split_string2(semi_record)) % 256
    IN  ((255 - data_sum_lsb) + 1) % 256

-----------------------------------------------------------------------------
(* sorted(): insertion into an ascending list, one element at a time *)

RECURSIVE InsertSorted(_, _)
InsertSorted(l, x) ==
    IF l = <<>> THEN <<x>>
    ELSE IF x < Head(l) THEN <<x>> \o l
    ELSE <<Head(l)>> \o InsertSorted(Tail(l), x)

RECURSIVE sorted(_)
sorted(l) ==
    IF l = <<>> THEN <<>>
    ELSE InsertSorted(sorted(SubSeq(l, 1, Len(l) - 1)), l[Len(l)])

(* list.remove(x): drops the first occurrence of x *)
RECURSIVE ListRemove(_, _)
ListRemove(l, x) ==
    IF l = <<>> THEN <<>>
    ELSE IF Head(l) = x THEN Tail(l)
    ELSE <<Head(l)>> \o ListRemove(Tail(l), x)

InList(l, x) == \E i \in 1..Len(l) : l[i] = x

-----------------------------------------------------------------------------
(* bisect.bisect_left / bisect.bisect_right: binary search on 0-based      *)
(* positions lo..hi of the list                                            *)

RECURSIVE BisectLeftLoop(_, _, _, _)
BisectLeftLoop(l, x, lo, hi) ==
    IF lo < hi
    THEN LET mid == (lo + hi) \div 2
         IN  IF l[mid + 1] < x THEN BisectLeftLoop(l, x, mid + 1, hi)
             ELSE BisectLeftLoop(l, x, lo, mid)
    ELSE lo

bisect_left(l, x) == BisectLeftLoop(l, x, 0, Len(l))

RECURSIVE BisectRightLoop(_, _, _, _)
BisectRightLoop(l, x, lo, hi) ==
    IF lo < hi
    THEN LET mid == (lo + hi) \div 2
         IN  IF x < l[mid + 1] THEN BisectRightLoop(l, x, lo, mid)
             ELSE BisectRightLoop(l, x, mid + 1, hi)
    ELSE lo

bisect_right(l, x) == BisectRightLoop(l, x, 0, Len(l))

find_lt(l, x) ==
    LET i == bisect_left(l, x)
    IN  IF i # 0 THEN Some(l[i]) ELSE None

(* find_gt searching with bisect_left *)
FindGtBisectLeft(l, x) ==
    LET i == bisect_left(l, x)
    IN  IF i # Len(l) THEN Some(l[i + 1]) ELSE None

find_gt(l, x) ==
    LET i == bisect_right(l, x)
    IN  IF i # Len(l) THEN Some(l[i + 1]) ELSE None

-----------------------------------------------------------------------------
(* SortedDict *)

(* SortedDict(pairs): dict(pairs), then _keys = sorted(dict keys).  The    *)
(* constructor is given the dict the pairs build.                          *)
RECURSIVE SetToSeq(_)
SetToSeq(S) ==
    IF S = {} THEN <<>>
    ELSE LET x == CHOOSE y \in S : TRUE
         IN  <<x>> \o SetToSeq(S \ {x})

SortedDictInit(d) == [dict |-> d, keys |-> sorted(SetToSeq(DOMAIN d))]

(* dict.__setitem__ *)
DictSet(d, key, val) == [k \in DOMAIN d \cup {key} |-> IF k = key THEN val ELSE d[k]]

(* dict.pop / dict.__delitem__ on a present key *)
DictRemove(d, key) == [k \in DOMAIN d \ {key} |-> d[k]]

(* SortedDict.__setitem__ *)
SetItem(sd, key, val) ==
    [dict |-> DictSet(sd.dict, key, val),
     keys |-> IF key \notin DOMAIN sd.dict
              THEN sorted(sd.keys \o <<key>>)
              ELSE sd.keys]

(* SortedDict.pop is not overridden: dict.pop removes the entry from the   *)
(* dict and never calls __delitem__, so _keys is left as it was.           *)
Pop(sd, key) == [dict |-> DictRemove(sd.dict, key), keys |-> sd.keys]

(* SortedDict.__delitem__: _keys is updated first, then dict.__delitem__    *)
(* runs (KeyError when the key is not in the dict)                         *)
DelItemKeys(sd, key) ==
    IF InList(sd.keys, key) THEN ListRemove(sd.keys, key) ELSE sd.keys

DelItem(sd, key) ==
    [dict |-> IF key \in DOMAIN sd.dict THEN DictRemove(sd.dict, key) ELSE sd.dict,
     keys |-> DelItemKeys(sd, key)]

(* SortedDict.keys() *)
Keys(sd) == sd.keys

-----------------------------------------------------------------------------
(* IntelHex.merge_data(data, new_entry): the SortedDict after the call and *)
(* the exception it raised ("none" when it returned).  A KeyError leaves   *)
(* the mutations made before it in place.                                  *)

Result(sd, e) == [sd |-> sd, error |-> e]

(* prev_extent = prev_address + len(data[prev_address]); None stands for   *)
(* float("-inf")                                                           *)
PrevExtent(sd, prev_address) ==
    IF prev_address = None THEN None
    ELSE Some(prev_address[1] + Len(sd.dict[prev_address[1]]))

(* (prev_extent > new_entry[0]) or (new_extent > next_address), with       *)
(* next_address = None standing for float("inf")                           *)
IsOverlap(prev_extent, start, new_extent, next_address) ==
    \/ (prev_extent # None /\ prev_extent[1] > start)
    \/ (next_address # None /\ new_extent > next_address[1])

(* prev_extent == new_entry[0] *)
TouchesPrev(prev_extent, start) ==
    prev_extent # None /\ prev_extent[1] = start

TouchesNextNever(new_extent, next_address) == FALSE

(* new_extent == next_address *)
TouchesNext(new_extent, next_address) ==
    next_address # None /\ new_extent = next_address[1]

IsDuplicateNever(sd, start) == FALSE

(* new_entry[0] in data *)
IsDuplicate(sd, start) == start \in DOMAIN sd.dict

(* merge_data with the overlap test of line 331 made after the append of *)
(* line 338                                                                *)
MergeDataAppendFirst(sd, entry) ==
    LET start == entry[1]
        bytes == entry[2]
    IN
    IF Cardinality(DOMAIN sd.dict) = 0 THEN Result(SetItem(sd, start, bytes), "none")
    ELSE IF IsDuplicate(sd, start) THEN Result(sd, "DuplicateAddress")
    ELSE
    LET addresses == Keys(sd)
        prev_address == find_lt(addresses, start)
        next_address == find_gt(addresses, start)
    IN
    IF prev_address # None /\ prev_address[1] \notin DOMAIN sd.dict
    THEN Result(sd, "KeyError")
    ELSE
    LET prev_extent == PrevExtent(sd, prev_address)
        new_extent == start + Len(bytes)
        prev_touch == TouchesPrev(prev_extent, start)
        sd1 == IF prev_touch
               THEN SetItem(sd, prev_address[1], sd.dict[prev_address[1]] \o bytes)
               ELSE sd
        add_to_address == IF prev_touch THEN prev_address[1] ELSE start
        next_touch == TouchesNext(new_extent, next_address)
    IN
    IF IsOverlap(prev_extent, start, new_extent, next_address)
    THEN Result(sd1, "OverlapError")
    ELSE IF next_touch /\ next_address[1] \notin DOMAIN sd1.dict
    THEN Result(sd1, "KeyError")
    ELSE
    LET sd2 == IF next_touch
               THEN SetItem(Pop(sd1, next_address[1]), add_to_address,
                            bytes \o sd1.dict[next_address[1]])
               ELSE sd1
        sd3 == IF add_to_address \notin DOMAIN sd2.dict
               THEN SetItem(sd2, add_to_address, bytes)
               ELSE sd2
    IN  Result(sd3, "none")

merge_data(sd, entry) ==
    LET start == entry[1]
        bytes == entry[2]
    IN
    IF Cardinality(DOMAIN sd.dict) = 0 THEN Result(SetItem(sd, start, bytes), "none")
    ELSE IF IsDuplicate(sd, start) THEN Result(sd, "DuplicateAddress")
    ELSE
    LET addresses == Keys(sd)
        prev_address == find_lt(addresses, start)
        next_address == find_gt(addresses, start)
    IN
    \* data[prev_address] on a key that is in _keys but not in the dict
    IF prev_address # None /\ prev_address[1] \notin DOMAIN sd.dict
    THEN Result(sd, "KeyError")
    ELSE
    LET prev_extent == PrevExtent(sd, prev_address)
        new_extent == start + Len(bytes)
    IN
    IF IsOverlap(prev_extent, start, new_extent, next_address)
    THEN Result(sd, "OverlapError")
    ELSE
    LET prev_touch == TouchesPrev(prev_extent, start)
        sd1 == IF prev_touch
               THEN SetItem(sd, prev_address[1], sd.dict[prev_address[1]] \o bytes)
               ELSE sd
        add_to_address == IF prev_touch THEN prev_address[1] ELSE start
        next_touch == TouchesNext(new_extent, next_address)
    IN
    \* data.pop(next_address) on a key that is in _keys but not in the dict
    IF next_touch /\ next_address[1] \notin DOMAIN sd1.dict
    THEN Result(sd1, "KeyError")
    ELSE
    LET sd2 == IF next_touch
               THEN SetItem(Pop(sd1, next_address[1]), add_to_address,
                            bytes \o sd1.dict[next_address[1]])
               ELSE sd1
        sd3 == IF add_to_address \notin DOMAIN sd2.dict
               THEN SetItem(sd2, add_to_address, bytes)
               ELSE sd2
    IN  Result(sd3, "none")

-----------------------------------------------------------------------------
(* IntelHex.parse_file: one iteration of the loop over the lines *)

(* illegal_rec_types *)
illegal_rec_types(fmt) == IF fmt = "I32" THEN {2, 3} ELSE {4, 5}

DetectFormatFirst(rec_type) == "I32"

(* filter(lambda el: rec_type not in illegal_rec_types[el], ...)[0] *)
DetectFormat(rec_type) ==
    CHOOSE el \in {"I32", "I16"} : rec_type \notin illegal_rec_types(el)

(* int(text, 16) >> 16 and int(text, 16) & 0xFFFF, taken from the digits  *)
(* so that a payload word of 0x80000000 or more stays within the integers  *)
HighWord(text) == Int16(SubSeq(text, 1, Len(text) - 4))
LowWord(text) == Int16(SubSeq(text, Max(Len(text) - 3, 1), Len(text)))

(* type 3: segment = rec_data >> 16, (segment << 4) + (rec_data & 0xFFFF) *)
EntryPointI16(segment, low) == (segment * 16) + low

(* type 5: the payload itself *)
EntryPointI32(rec_data) == rec_data

(* type 2: rec_data << 4 *)
OffsetI16(rec_data) == rec_data * 16

(* type 4 with the shift of type 2 *)
OffsetI32AsSegment(rec_data) == rec_data * 16

(* type 4: rec_data << 0x10 *)
OffsetI32(rec_data) == rec_data * 65536

(* the locals of parse_file that one iteration reads and writes *)
ParseState ==
    [sd |-> [dict |-> data, keys |-> keys], hex_format |-> hex_format,
     encountered_eof |-> encountered_eof, address_offset |-> address_offset,
     entry_point |-> entry_point, error |-> "none", merged |-> None]

Raise(st, e) == [st EXCEPT !.error = e]

(* header fields of a record *)
ByteCountText(rec) == Slice(rec, 1, 3)
AddressText(rec) == Slice(rec, 3, 7)
TypeText(rec) == Slice(rec, 7, 9)
DataText(rec) == Slice(rec, 9, 9 + 2 * Int16(ByteCountText(rec)))

HasEntryPointTruthy(st) == st.entry_point # None /\ st.entry_point # Some(0)

(* entry_point is not None *)
HasEntryPoint(st) == st.entry_point # None

AfterEofNever(st) == FALSE

(* if encountered_eof *)
AfterEof(st) == st.encountered_eof

(* lines 242-280: the dispatch on rec_type, fmt being the sub-format after *)
(* detection                                                               *)
Dispatch(st, fmt, is_strict, rec) ==
    LET rec_address == Int16(AddressText(rec))
        rec_type == Int16(TypeText(rec))
        rec_data == DataText(rec)
        st1 == [st EXCEPT !.hex_format = fmt]
    IN
    IF rec_type <= 1 /\ ~HexTextOk(rec_data) THEN Raise(st1, "ValueError")
    ELSE IF rec_type > 1 /\ ~IntOk(rec_data) THEN Raise(st1, "ValueError")
    ELSE IF rec_type = 0
    THEN LET entry == <<st.address_offset + rec_address, BytesOf(rec_data)>>
             r == merge_data(st.sd, entry)
         IN  [st1 EXCEPT !.sd = r.sd, !.error = r.error, !.merged = Some(entry)]
    ELSE IF rec_type = 1 THEN [st1 EXCEPT !.encountered_eof = TRUE]
    ELSE IF rec_type = 2
    THEN [st1 EXCEPT !.address_offset = OffsetI16(Int16(rec_data))]
    ELSE IF rec_type = 3
    THEN IF HasEntryPoint(st) /\ is_strict
         THEN Raise(st1, "DuplicateEntryPoint")
         ELSE [st1 EXCEPT !.entry_point = Some(EntryPointI16(HighWord(rec_data), LowWord(rec_data)))]
    ELSE IF rec_type = 4
    THEN [st1 EXCEPT !.address_offset = OffsetI32(Int16(rec_data))]
    ELSE IF rec_type = 5
    THEN IF HasEntryPoint(st) /\ is_strict
         THEN Raise(st1, "DuplicateEntryPoint")
         ELSE [st1 EXCEPT !.entry_point = Some(EntryPointI32(Int16(rec_data)))]
    ELSE Raise(st1, "UnknownRecordType")

(* lines 203-234: the checks made on a record before its payload is read *)
parse_record(st, is_strict, rec) ==
    IF AfterEof(st) THEN Raise(st, "TrailingRecordsAfterEof")
    ELSE IF rec = <<>> THEN Raise(st, "IndexError")
    ELSE IF rec[1] # ":" THEN Raise(st, "MalformedRecord")
    ELSE IF ~IntOk(LastTwo(rec)) \/ ~HexTextOk(Body(rec)) THEN Raise(st, "ValueError")
    ELSE IF Int16(LastTwo(rec)) # generate_checksum(Body(rec))
    THEN Raise(st, "ChecksumMismatch")
    ELSE IF ~IntOk(ByteCountText(rec)) \/ ~IntOk(AddressText(rec)) \/ ~IntOk(TypeText(rec))
    THEN Raise(st, "ValueError")
    ELSE
    LET rec_type == Int16(TypeText(rec))
        fmt == IF rec_type \in 2..5 /\ st.hex_format = "auto"
               THEN DetectFormat(rec_type)
               ELSE st.hex_format
    IN
    IF rec_type \in 2..5 /\ rec_type \in illegal_rec_types(fmt) /\ is_strict
    THEN Raise([st EXCEPT !.hex_format = fmt], "IllegalRecordType")
    ELSE Dispatch(st, fmt, is_strict, rec)

(* one iteration on the given line: the new values of the locals *)
ParseLine(line) ==
    LET rec == StripWhitespace(line)
        r == parse_record(ParseState, strict, rec)
    IN  /\ data' = r.sd.dict
        /\ keys' = r.sd.keys
        /\ new_entry' = r.merged
        /\ error' = r.error
        /\ hex_format' = r.hex_format
        /\ encountered_eof' = r.encountered_eof
        /\ address_offset' = r.address_offset
        /\ entry_point' = r.entry_point
        /\ record' = rec
        /\ lineno' = lineno + 1
        /\ starts' = IF r.merged = None THEN starts ELSE starts \cup {r.merged[1][1]}
        /\ UNCHANGED strict

(* the record text write would produce for these fields: byte count,       *)
(* address, type, payload text and checksum                                *)
MkRecord(byte_count, address, rec_type, payload) ==
    LET semi == FormatHex(byte_count, 2) \o FormatHex(address, 4)
                \o FormatHex(rec_type, 2) \o payload
    IN  <<":">> \o semi \o FormatHex(generate_checksum(semi), 2)

RECURSIVE BytesText(_)
BytesText(bytes) ==
    IF bytes = <<>> THEN <<>>
    ELSE FormatHex(Head(bytes), 2) \o BytesText(Tail(bytes))

DataLine(address, bytes) == MkRecord(Len(bytes), address, 0, BytesText(bytes))

(* the lines an input stream is made of *)
InputLines ==
    { DataLine(0, <<17>>),
      DataLine(1, <<34>>),
      DataLine(1, <<51, 68>>),
      DataLine(1, <<>>),
      DataLine(16, <<85>>),
      MkRecord(0, 0, 1, <<>>),
      MkRecord(2, 0, 2, FormatHex(1, 4)),
      MkRecord(2, 0, 4, FormatHex(0, 4)),
      MkRecord(4, 0, 3, FormatHex(268435456 + 2, 8)),
      MkRecord(4, 0, 5, FormatHex(65538, 8)),
      MkRecord(4, 0, 5, FormatHex(0, 8)),
      MkRecord(0, 0, 5, <<>>),
      <<":", "0", "0", "0", "0", "0", "0", "0", "1", "F", "E">>,
      <<"0", "0", "0", "0", "0", "0", "0", "1", "F", "F">>,
      MkRecord(0, 0, 6, <<>>),
      <<>>,
      MkRecord(2, 32, 0, <<"1", "1">>) }

(* test_gt is not running *)
FindIdle ==
    /\ test_list = <<>>
    /\ num = 0
    /\ found_lt = None
    /\ found_gt = None

ParseIdle ==
    /\ hex_format = "auto"
    /\ strict = FALSE
    /\ encountered_eof = FALSE
    /\ address_offset = 0
    /\ entry_point = None
    /\ record = <<>>
    /\ lineno = 0
    /\ starts = {}
    /\ detected_format = None
    /\ requested_format = "auto"

(* no write and no conversion test is running *)
WriteIdle ==
    /\ self_data = EmptyDict
    /\ self_keys = <<>>
    /\ self_entry = None
    /\ line_length = 16
    /\ file = <<>>
    /\ offset = 0
    /\ kidx = 0
    /\ start_address = 0
    /\ chunk = <<>>
    /\ index = 0
    /\ applied_offset = 0
    /\ hex_obj_in = [data |-> EmptyDict, entry_point |-> None]
    /\ chain = <<>>
    /\ hop = 0

(* parse_file called on a stream of at most MaxLines lines of InputLines *)
InitParse ==
    /\ data = EmptyDict
    /\ keys = <<>>
    /\ new_entry = None
    /\ error = "none"
    /\ nops = 0
    /\ pc = "parse_file"
    /\ requested_format \in {"auto", "I16", "I32"}
    /\ hex_format = requested_format
    /\ strict \in BOOLEAN
    /\ encountered_eof = FALSE
    /\ address_offset = 0
    /\ entry_point = None
    /\ record = <<>>
    /\ lineno = 0
    /\ starts = {}
    /\ detected_format = None
    /\ FindIdle
    /\ WriteIdle

(* the input of the worked example of the documentation: an extended     *)
(* linear address record for 0x00AA, the thirteen bytes of "Hello, world!" *)
(* at address 0 and the end-of-file record, as printed (the first line     *)
(* ends in FA, the second declares 0x0A bytes and ends with its payload)   *)
(* and with the byte count and the checksums write gives these records     *)
Hello == <<72, 101, 108, 108, 111, 44, 32, 119, 111, 114, 108, 100, 33>>

ScenarioPrinted ==
    << <<":", "0", "2", "0", "0", "0", "0", "0", "4", "0", "0", "A", "A", "F", "A">>,
       <<":", "0", "A", "0", "0", "0", "0", "0", "0">> \o BytesText(Hello),
       <<":", "0", "0", "0", "0", "0", "0", "0", "1", "F", "F">> >>

ScenarioChecked ==
    << MkRecord(2, 0, 4, FormatHex(170, 4)),
       DataLine(0, Hello),
       <<":", "0", "0", "0", "0", "0", "0", "0", "1", "F", "F">> >>

(* read_from_file(fp) with its defaults on a stream of the example *)
InitScenario ==
    /\ file \in {ScenarioPrinted, ScenarioChecked}
    /\ data = EmptyDict
    /\ keys = <<>>
    /\ new_entry = None
    /\ error = "none"
    /\ nops = 0
    /\ pc = "parse_file"
    /\ ParseIdle
    /\ FindIdle
    /\ self_data = EmptyDict
    /\ self_keys = <<>>
    /\ self_entry = None
    /\ line_length = 16
    /\ offset = 0
    /\ kidx = 0
    /\ start_address = 0
    /\ chunk = <<>>
    /\ index = 0
    /\ applied_offset = 0
    /\ hex_obj_in = [data |-> EmptyDict, entry_point |-> None]
    /\ chain = <<>>
    /\ hop = 0

(* the next line of a stream drawn from InputLines *)
ParseInput ==
    /\ pc = "parse_file"
    /\ error = "none"
    /\ file = <<>>
    /\ lineno < MaxLines
    /\ \E line \in InputLines : ParseLine(line)
    /\ UNCHANGED <<nops, pc, detected_format, requested_format, writeVars, testVars, findVars>>

(* the stream is exhausted: parse_file returns and read_from_file hands    *)
(* the detected format to its caller                                       *)
ParseReturn ==
    /\ pc = "parse_file"
    /\ error = "none"
    /\ file # <<>> => lineno = Len(file)
    /\ pc' = "returned"
    /\ detected_format' = Some(hex_format)
    /\ UNCHANGED <<mapVars, nops, hex_format, strict, encountered_eof,
                   address_offset, entry_point, record, lineno, starts,
                   requested_format, writeVars, testVars, findVars>>

(* the next line of the given stream *)
ParseStream ==
    /\ pc = "parse_file"
    /\ error = "none"
    /\ lineno < Len(file)
    /\ ParseLine(file[lineno + 1])
    /\ UNCHANGED <<nops, pc, detected_format, requested_format, writeVars, testVars,
                   findVars>>

NextParse == ParseInput \/ ParseStream \/ ParseReturn

SpecParse == (InitParse \/ InitScenario) /\ [][NextParse]_vars

-----------------------------------------------------------------------------
(* Range map driven directly: merge_data calls from an empty SortedDict *)

InitMerge ==
    /\ data = EmptyDict
    /\ keys = <<>>
    /\ new_entry = None
    /\ error = "none"
    /\ nops = 0
    /\ pc = "merge_data"
    /\ ParseIdle
    /\ FindIdle
    /\ WriteIdle

MergeData ==
    \E e \in Entries :
        LET r == merge_data([dict |-> data, keys |-> keys], e)
        IN  /\ Len(keys) < MaxKeys
            /\ data' = r.sd.dict
            /\ keys' = r.sd.keys
            /\ new_entry' = Some(e)
            /\ error' = r.error
            /\ UNCHANGED <<nops, pc, parseVars, writeVars, testVars, findVars>>

NextMerge == MergeData

SpecMerge == InitMerge /\ [][NextMerge]_vars

-----------------------------------------------------------------------------
(* SortedDict driven directly: construction from pairs, item assignment,   *)
(* item deletion and merge_data                                            *)

InitDicts ==
    {EmptyDict}
    \cup {DictSet(EmptyDict, a, p) : a \in 0..MaxAddr, p \in Payloads}
    \cup {DictSet(DictSet(EmptyDict, a, <<17>>), b, <<34, 51>>) :
             a \in 0..MaxAddr, b \in 0..MaxAddr}

InitDict ==
    \E d \in InitDicts :
        /\ data = SortedDictInit(d).dict
        /\ keys = SortedDictInit(d).keys
        /\ new_entry = None
        /\ error = "none"
        /\ nops = 0
        /\ pc = "SortedDict"
        /\ ParseIdle
        /\ FindIdle
        /\ WriteIdle

SetItemCall ==
    \E e \in Entries :
        LET sd == SetItem([dict |-> data, keys |-> keys], e[1], e[2])
        IN  /\ nops < MaxOps
            /\ data' = sd.dict
            /\ keys' = sd.keys
            /\ new_entry' = Some(e)
            /\ error' = "none"
            /\ nops' = nops + 1
            /\ UNCHANGED <<pc, parseVars, writeVars, testVars, findVars>>

DelItemCall ==
    \E k \in 0..MaxAddr :
        LET sd == DelItem([dict |-> data, keys |-> keys], k)
        IN  /\ nops < MaxOps
            /\ data' = sd.dict
            /\ keys' = sd.keys
            /\ new_entry' = None
            /\ error' = IF k \in DOMAIN data THEN "none" ELSE "KeyError"
            /\ nops' = nops + 1
            /\ UNCHANGED <<pc, parseVars, writeVars, testVars, findVars>>

MergeDataCall ==
    \E e \in Entries :
        LET r == merge_data([dict |-> data, keys |-> keys], e)
        IN  /\ nops < MaxOps
            /\ data' = r.sd.dict
            /\ keys' = r.sd.keys
            /\ new_entry' = Some(e)
            /\ error' = r.error
            /\ nops' = nops + 1
            /\ UNCHANGED <<pc, parseVars, writeVars, testVars, findVars>>

NextDict == SetItemCall \/ DelItemCall \/ MergeDataCall

SpecDict == InitDict /\ [][NextDict]_vars

-----------------------------------------------------------------------------
(* IntelHex.extended_address_record, generate_data_records, write *)

(* a raised exception or the records produced *)
Emit(lines, e) == [lines |-> lines, error |-> e]

(* n >> k *)
RECURSIVE ShiftRight(_, _)
ShiftRight(n, k) == IF k = 0 THEN n ELSE ShiftRight(n \div 2, k - 1)

(* extended_address_record(abs_offset, hex_format): shift and type_str are *)
(* bound only for "I32" and "I16", and the record is formatted after the   *)
(* overflow check                                                          *)
(* abs_offset > (0xFFFF << 16), compared word by word *)
OffsetOverflow(abs_offset) ==
    \/ abs_offset \div 65536 > 65535
    \/ (abs_offset \div 65536 = 65535 /\ abs_offset % 65536 > 0)

extended_address_record(abs_offset, fmt) ==
    IF OffsetOverflow(abs_offset) THEN Emit(<<>>, "AddressOutOfRange")
    ELSE IF fmt \notin {"I32", "I16"} THEN Emit(<<>>, "UnboundLocalError")
    ELSE
    LET shift == IF fmt = "I32" THEN 16 ELSE 4
        type_str == IF fmt = "I32" THEN <<"0", "4">> ELSE <<"0", "2">>
        semi == <<"0", "2", "0", "0", "0", "0">> \o type_str
                \o FormatHex(ShiftRight(abs_offset, shift), 4)
    IN  Emit(<<<<":">> \o semi \o FormatHex(generate_checksum(semi), 2)>>, "none")

(* lines 87-92: the offset after the test on start_address;                *)
(* ((start_address - initial_offset) / 0xFFFF) << 0x10 is added            *)
ExtraOffset(start, initial_offset) == ((start - initial_offset) \div 65535) * 65536

NeedsOffset(start, initial_offset) == start > initial_offset + 65535

(* lines 101-107: the record length of one iteration *)
RecExtent(start, idx, rec_length, applied) == start + idx + rec_length - applied

(* line 105 testing rec_extent >= 0x10000 *)
CutLengthInclusive(rec_length, rec_extent) ==
    IF rec_extent >= 65536
    THEN Max(0, rec_length - (rec_extent - 65535))
    ELSE rec_length

(* line 107 left out: the record keeps the length of line 101 *)
CutLengthNever(rec_length, rec_extent) == rec_length

CutLength(rec_length, rec_extent) ==
    IF rec_extent > 65536
    THEN Max(0, rec_length - (rec_extent - 65535))
    ELSE rec_length

(* lines 109-126: the data record of rec_length bytes at index *)
DataRecord(start, bytes, idx, rec_length, applied) ==
    LET semi == FormatHex(rec_length, 2) \o FormatHex(start + idx - applied, 4)
                \o <<"0", "0">> \o BytesText(SubSeq(bytes, idx + 1, idx + rec_length))
    IN  <<":">> \o semi \o FormatHex(generate_checksum(semi), 2)

(* one iteration of the while loop: records yielded, index and             *)
(* applied_offset after it, exception raised                               *)
GenIteration(start, bytes, idx, applied, fmt, max_len) ==
    LET rec_length0 == Min(Len(bytes) - idx, max_len)
        rec_extent == RecExtent(start, idx, rec_length0, applied)
        rec_length == CutLength(rec_length0, rec_extent)
        data_lines == IF rec_length > 0
                      THEN <<DataRecord(start, bytes, idx, rec_length, applied)>>
                      ELSE <<>>
        ext == extended_address_record(applied + 65536, fmt)
    IN
    IF start + idx - applied < 0
    THEN [lines |-> <<>>, index |-> idx, applied_offset |-> applied,
          error |-> "Exception"]
    ELSE IF rec_extent > 65536
    THEN [lines |-> data_lines \o ext.lines, index |-> idx + rec_length,
          applied_offset |-> applied + 65536, error |-> ext.error]
    ELSE [lines |-> data_lines, index |-> idx + rec_length,
          applied_offset |-> applied, error |-> "none"]

(* file_pointer.write(record + "\n") for each record *)
WriteLines(f, lines) == f \o [i \in 1..Len(lines) |-> lines[i] \o <<"\n">>]

(* line 51 shifting by the 12 bits of line 56 *)
EntrySegmentByNibbles(entry) == ShiftRight(entry, 12)

(* line 51: segment = self.entry_point >> 16 *)
EntrySegment(entry) == ShiftRight(entry, 16)

(* entry-point record of write, lines 48-64 *)
entry_record(entry, fmt) ==
    IF fmt = "I32"
    THEN LET semi == <<"0", "4", "0", "0", "0", "0", "0", "5">> \o FormatHex(entry, 8)
         IN  Emit(<<<<":">> \o semi \o FormatHex(generate_checksum(semi), 2)>>, "none")
    ELSE IF fmt = "I16"
    THEN IF EntrySegment(entry) > 15 THEN Emit(<<>>, "EntryPointOutOfRange")
         \* "{:08X}" of ((segment << 12) << 16) | offset with segment <= 0xF:
         \* the four digits of segment << 12, then the four digits of offset
         ELSE LET semi == <<"0", "4", "0", "0", "0", "0", "0", "3">>
                          \o FormatHex(EntrySegment(entry) * 4096, 4)
                          \o FormatHex(entry % 65536, 4)
              IN  Emit(<<<<":">> \o semi \o FormatHex(generate_checksum(semi), 2)>>,
                       "none")
    ELSE Emit(<<>>, "InvalidTargetFormat")

(* line 68 with the record type digit of a data record *)
EofRecordAsData == <<":", "0", "0", "0", "0", "0", "0", "0", "0", "0", "0">>

(* line 68: the literal written after everything else *)
EofRecord == <<":", "0", "0", "0", "0", "0", "0", "0", "1", "F", "F">>

(* the target format of the write in progress *)
TargetFormat == chain[hop + 1]

(* line 38: the for loop takes the next key, reads self.data[start_address] *)
(* and calls the generator; after the last key it goes on to line 46       *)
WriteFor ==
    /\ pc = "write"
    /\ error = "none"
    /\ IF kidx < Len(self_keys)
       THEN IF self_keys[kidx + 1] \in DOMAIN self_data
            THEN /\ start_address' = self_keys[kidx + 1]
                 /\ chunk' = self_data[self_keys[kidx + 1]]
                 /\ kidx' = kidx + 1
                 /\ pc' = "generate_data_records"
                 /\ error' = "none"
            ELSE /\ error' = "KeyError"
                 /\ UNCHANGED <<start_address, chunk, kidx, pc>>
       ELSE /\ pc' = "write_entry"
            /\ UNCHANGED <<start_address, chunk, kidx, error>>
    /\ UNCHANGED <<data, keys, new_entry, nops, parseVars, self_data, self_keys,
                   self_entry, line_length, file, offset, index, applied_offset,
                   testVars, findVars>>

(* lines 86-96: the extended-address record for a start address outside    *)
(* the current window, then index = 0 and applied_offset = initial_offset  *)
GenStart ==
    /\ pc = "generate_data_records"
    /\ error = "none"
    /\ LET moved == NeedsOffset(start_address, offset)
           initial_offset == IF moved
                             THEN offset + ExtraOffset(start_address, offset)
                             ELSE offset
           ext == IF moved THEN extended_address_record(initial_offset, TargetFormat)
                  ELSE Emit(<<>>, "none")
       IN  /\ file' = WriteLines(file, ext.lines)
           /\ error' = ext.error
           /\ offset' = IF ext.error = "none" THEN initial_offset ELSE offset
           /\ applied_offset' = initial_offset
           /\ index' = 0
           /\ pc' = IF ext.error = "none" THEN "while" ELSE pc
    /\ UNCHANGED <<data, keys, new_entry, nops, parseVars, self_data, self_keys,
                   self_entry, line_length, kidx, start_address, chunk, testVars, findVars>>

(* lines 99-132: one iteration of the while loop; write puts every record  *)
(* yielded in the file and takes over its applied_offset                   *)
GenLoop ==
    /\ pc = "while"
    /\ error = "none"
    /\ index < Len(chunk)
    /\ LET r == GenIteration(start_address, chunk, index, applied_offset,
                             TargetFormat, line_length)
       IN  /\ file' = WriteLines(file, r.lines)
           /\ index' = r.index
           /\ applied_offset' = r.applied_offset
           /\ error' = r.error
           /\ offset' = IF r.error = "none" THEN r.applied_offset ELSE applied_offset
    /\ UNCHANGED <<data, keys, new_entry, nops, pc, parseVars, self_data, self_keys,
                   self_entry, line_length, kidx, start_address, chunk, testVars, findVars>>

(* the while condition fails: the generator is exhausted *)
GenReturn ==
    /\ pc = "while"
    /\ error = "none"
    /\ index >= Len(chunk)
    /\ pc' = "write"
    /\ UNCHANGED <<mapVars, nops, parseVars, writeVars, testVars, findVars>>

(* lines 46-66 *)
WriteEntryPoint ==
    /\ pc = "write_entry"
    /\ error = "none"
    /\ LET r == IF self_entry = None THEN Emit(<<>>, "none")
                ELSE entry_record(self_entry[1], TargetFormat)
       IN  /\ file' = WriteLines(file, r.lines)
           /\ error' = r.error
           /\ offset' = IF self_entry # None /\ TargetFormat = "I16" /\ r.error = "none"
                        THEN self_entry[1] % 65536
                        ELSE offset
           /\ pc' = IF r.error = "none" THEN "write_eof" ELSE pc
    /\ UNCHANGED <<data, keys, new_entry, nops, parseVars, self_data, self_keys,
                   self_entry, line_length, kidx, start_address, chunk, index,
                   applied_offset, testVars, findVars>>

(* line 68, then _test_file seeks to 0 and calls read_from_file with its   *)
(* defaults hex_format = "auto", strict = False                            *)
WriteEof ==
    /\ pc = "write_eof"
    /\ error = "none"
    /\ file' = WriteLines(file, <<EofRecord>>)
    /\ pc' = "read_from_file"
    /\ data' = EmptyDict
    /\ keys' = <<>>
    /\ new_entry' = None
    /\ hex_format' = "auto"
    /\ requested_format' = "auto"
    /\ strict' = FALSE
    /\ encountered_eof' = FALSE
    /\ address_offset' = 0
    /\ entry_point' = None
    /\ record' = <<>>
    /\ lineno' = 0
    /\ starts' = {}
    /\ detected_format' = None
    /\ UNCHANGED <<error, nops, self_data, self_keys, self_entry, line_length,
                   offset, kidx, start_address, chunk, index, applied_offset,
                   testVars, findVars>>

(* parse_file on the file just written, one line at a time *)
ParseFile ==
    /\ pc = "read_from_file"
    /\ error = "none"
    /\ lineno < Len(file)
    /\ ParseLine(file[lineno + 1])
    /\ UNCHANGED <<nops, pc, detected_format, requested_format, writeVars, testVars, findVars>>

(* the lines are exhausted: read_from_file returns the image and the       *)
(* detected format; _test_file writes that image in the next format of the *)
(* chain to a fresh file, or ends                                          *)
ReadReturn ==
    /\ pc = "read_from_file"
    /\ error = "none"
    /\ lineno = Len(file)
    /\ detected_format' = Some(hex_format)
    /\ self_data' = data
    /\ self_keys' = keys
    /\ self_entry' = entry_point
    /\ hop' = hop + 1
    /\ pc' = IF hop + 1 < Len(chain) THEN "write" ELSE "done"
    /\ file' = IF hop + 1 < Len(chain) THEN <<>> ELSE file
    /\ offset' = 0
    /\ kidx' = 0
    /\ UNCHANGED <<mapVars, nops, hex_format, strict, encountered_eof,
                   address_offset, entry_point, record, lineno, starts,
                   requested_format, line_length, start_address, chunk, index,
                   applied_offset, hex_obj_in, chain, findVars>>

(* the images of the conversion test *)

MaxChunk == 32

(* byte i of a chunk that starts at a given address *)
Pattern(start, n) == [i \in 1..n |-> (start + (7 * i)) % 256]

Starts == {0, 65520, 65526, 65536, 131070, 1048576}

ChunkLens == {1, 16, MaxChunk}

OneRange == {(a :> Pattern(a, n)) : a \in Starts, n \in ChunkLens}

TwoRanges == {(0 :> Pattern(0, 1)) @@ (a :> Pattern(a, n)) :
                a \in Starts \ {0}, n \in ChunkLens}

EntryPoints == {None, Some(0), Some(74565), Some(1048575), Some(1048576)}

Chains == {<<"I16", "I32", "I16">>, <<"I32", "I16", "I32">>}

LineLengths == {16, 5}

(* IntelHex(SortedDict(pairs), entry_point).write(fp, chain[0], line_length) *)
Init ==
    /\ \E d \in OneRange \cup TwoRanges : \E e \in EntryPoints :
          /\ hex_obj_in = [data |-> d, entry_point |-> e]
          /\ self_data = SortedDictInit(d).dict
          /\ self_keys = SortedDictInit(d).keys
          /\ self_entry = e
    /\ chain \in Chains
    /\ line_length \in LineLengths
    /\ hop = 0
    /\ file = <<>>
    /\ offset = 0
    /\ kidx = 0
    /\ start_address = 0
    /\ chunk = <<>>
    /\ index = 0
    /\ applied_offset = 0
    /\ pc = "write"
    /\ error = "none"
    /\ nops = 0
    /\ data = EmptyDict
    /\ keys = <<>>
    /\ new_entry = None
    /\ ParseIdle
    /\ FindIdle

Next ==
    \/ WriteFor
    \/ GenStart
    \/ GenLoop
    \/ GenReturn
    \/ WriteEntryPoint
    \/ WriteEof
    \/ ParseFile
    \/ ReadReturn

Spec == Init /\ [][Next]_vars

-----------------------------------------------------------------------------
(* Properties of the range map *)

Range(l) == {l[i] : i \in 1..Len(l)}

StrictlyAscending(l) == \A i \in 1..(Len(l) - 1) : l[i] < l[i + 1]

(* the addresses a stored or offered range covers *)
Covered(start, bytes) == start..(start + Len(bytes) - 1)

SharesAddress(d, entry) ==
    \E k \in DOMAIN d : Covered(k, d[k]) \cap Covered(entry[1], entry[2]) # {}

(* C3: after any sequence of merge_data calls from an empty map, failed or *)
(* not, two stored entries a1 < a2 satisfy a1 + len(b1) < a2: the stored   *)
(* ranges neither overlap nor touch.                                       *)
C3_RangeMapInvariant ==
    \A a1 \in DOMAIN data : \A a2 \in DOMAIN data :
        a1 < a2 => a1 + Len(data[a1]) < a2

(* two separate ranges are stored, one of them the product of a merge, and *)
(* the last call was rejected                                              *)
C3_Witness ==
    /\ Cardinality(DOMAIN data) >= 2
    /\ \E k \in DOMAIN data : Len(data[k]) >= 3
    /\ error = "OverlapError"

(* C4: keys() is the strictly ascending, duplicate-free list of exactly    *)
(* the keys stored in the dict, so items() and write can look every one of *)
(* them up.                                                                *)
C4_OrderedIteration ==
    /\ StrictlyAscending(keys)
    /\ Range(keys) = DOMAIN data

(* C5: two abutting non-empty ranges (s, A) and (s + len(A), B) inserted   *)
(* into an empty map in either order leave the single entry s -> A B with  *)
(* key list [s].  The state before the second insert is the map holding    *)
(* the first range alone.                                                  *)
C5_MergeCommutes ==
    [][\A s \in 0..MaxAddr : \A A \in Payloads \ {<<>>} : \A B \in Payloads \ {<<>>} :
          LET t == s + Len(A)
              firstA == data = (s :> A) /\ keys = <<s>> /\ new_entry' = Some(<<t, B>>)
              firstB == data = (t :> B) /\ keys = <<t>> /\ new_entry' = Some(<<s, A>>)
          IN  (firstA \/ firstB) =>
                  /\ error' = "none"
                  /\ data' = (s :> (A \o B))
                  /\ keys' = <<s>>]_vars

(* C6: a merge_data call whose range shares an address with a stored range *)
(* is rejected with the ValueError of the overlap or duplicate check.      *)
C6_OverlapRejected ==
    [][(new_entry' # None /\ SharesAddress(data, new_entry'[1]))
          => error' \in {"OverlapError", "DuplicateAddress"}]_vars

-----------------------------------------------------------------------------
(* Properties of parse_file *)

(* the line passes the leading-character test, the checksum test and the   *)
(* reading of its header fields                                            *)
HeaderOk(rec) ==
    /\ rec # <<>>
    /\ rec[1] = ":"
    /\ IntOk(LastTwo(rec))
    /\ HexTextOk(Body(rec))
    /\ Int16(LastTwo(rec)) = generate_checksum(Body(rec))
    /\ IntOk(ByteCountText(rec))
    /\ IntOk(AddressText(rec))
    /\ IntOk(TypeText(rec))

RecTypeOf(rec) == Int16(TypeText(rec))

(* a record: a line whose header and payload both decode *)
Decodable(rec) ==
    /\ HeaderOk(rec)
    /\ IF RecTypeOf(rec) <= 1 THEN HexTextOk(DataText(rec)) ELSE IntOk(DataText(rec))

(* this step consumed a line *)
Consumed == lineno' = lineno + 1

(* value of an entry-point record *)
EntryValueOf(rec) ==
    IF RecTypeOf(rec) = 3
    THEN (HighWord(DataText(rec)) * 16) + LowWord(DataText(rec))
    ELSE Int16(DataText(rec))

(* this step consumed a data record, before any EOF record, that the       *)
(* record-type check let through                                           *)
DataRecordStep ==
    /\ Consumed
    /\ ~encountered_eof
    /\ Decodable(record')
    /\ RecTypeOf(record') = 0

C8_NothingAfterEof ==
    [][/\ (Consumed /\ ~encountered_eof /\ Decodable(record')
           /\ RecTypeOf(record') = 1)
          => (encountered_eof' /\ error' = "none")
       /\ (Consumed /\ encountered_eof)
          => /\ error' = "TrailingRecordsAfterEof"
             /\ data' = data
             /\ keys' = keys
             /\ address_offset' = address_offset
             /\ entry_point' = entry_point]_vars

(* a data record was read after an EOF record and refused *)
C8_Witness ==
    /\ error = "TrailingRecordsAfterEof"
    /\ HeaderOk(record)
    /\ RecTypeOf(record) = 0
    /\ data # EmptyDict

(* C9: under Auto the sub-format is resolved by the first record of type   *)
(* 2-5 (I16 for 2/3, I32 for 4/5) and by nothing else, a resolved or       *)
(* pinned sub-format never changes, the caller is returned the resolved    *)
(* one, and under strict a record of the other family fails with           *)
(* IllegalRecordType.                                                      *)
C9_AutoDetection ==
    [][/\ Consumed =>
            /\ hex_format # "auto" => hex_format' = hex_format
            /\ (hex_format = "auto" /\ ~encountered_eof /\ HeaderOk(record')
                /\ RecTypeOf(record') \in {2, 3}) => hex_format' = "I16"
            /\ (hex_format = "auto" /\ ~encountered_eof /\ HeaderOk(record')
                /\ RecTypeOf(record') \in {4, 5}) => hex_format' = "I32"
            /\ (hex_format = "auto"
                /\ ~(~encountered_eof /\ HeaderOk(record')
                     /\ RecTypeOf(record') \in 2..5)) => hex_format' = "auto"
            /\ (strict /\ ~encountered_eof /\ HeaderOk(record')
                /\ \/ hex_format = "I16" /\ RecTypeOf(record') \in {4, 5}
                   \/ hex_format = "I32" /\ RecTypeOf(record') \in {2, 3})
               => error' = "IllegalRecordType"
       /\ pc' = "returned" => detected_format' = Some(hex_format)]_vars

(* a strict parse started in Auto, resolved to I32, and refused a later    *)
(* I16 record                                                              *)
C9_Witness ==
    /\ requested_format = "auto"
    /\ strict
    /\ hex_format = "I32"
    /\ error = "IllegalRecordType"
    /\ RecTypeOf(record) \in {2, 3}

(* this step consumed an entry-point record before any EOF record *)
EntryRecordStep ==
    /\ Consumed
    /\ ~encountered_eof
    /\ Decodable(record')
    /\ RecTypeOf(record') \in {3, 5}

(* C10 as claimed: in strict mode any second entry-point record fails with *)
(* DuplicateEntryPoint; in non-strict mode the entry point becomes the     *)
(* value of the record.                                                    *)
C10_SingleEntryPoint ==
    [][/\ (EntryRecordStep /\ strict /\ entry_point # None)
          => error' = "DuplicateEntryPoint"
       /\ (EntryRecordStep /\ ~strict)
          => (error' = "none" /\ entry_point' = Some(EntryValueOf(record')))]_vars

(* C10 amended: in strict mode a second entry-point record of the type     *)
(* legal for the resolved sub-format fails with DuplicateEntryPoint (one   *)
(* of the other family has already failed with IllegalRecordType); in      *)
(* non-strict mode the entry point becomes the value of the record.        *)
C10_SingleEntryPointLegal ==
    [][/\ (EntryRecordStep /\ strict /\ entry_point # None
           /\ RecTypeOf(record') \notin illegal_rec_types(hex_format'))
          => (error' = "DuplicateEntryPoint" /\ entry_point' = entry_point)
       /\ (EntryRecordStep /\ strict /\ entry_point # None
           /\ RecTypeOf(record') \in illegal_rec_types(hex_format'))
          => (error' = "IllegalRecordType" /\ entry_point' = entry_point)
       /\ (EntryRecordStep /\ ~strict)
          => (error' = "none" /\ entry_point' = Some(EntryValueOf(record')))]_vars

(* a strict parse refused a second entry-point record while the first one  *)
(* had set the entry point 0                                               *)
C10_Witness ==
    /\ strict
    /\ error = "DuplicateEntryPoint"
    /\ entry_point = Some(0)

-----------------------------------------------------------------------------
(* Properties of write and of the conversion round trip *)

(* the sub-format can represent the image: an I16 entry point has a 4-bit  *)
(* segment and I16 data lies below 0x100000                                *)
CanRepresent(img, fmt) ==
    /\ (fmt = "I16" /\ img.entry_point # None) => img.entry_point[1] \div 65536 <= 15
    /\ fmt = "I16" => \A a \in DOMAIN img.data : a + Len(img.data[a]) <= 1048576

(* the formats of the writes made or under way *)
FormatsUsed == SubSeq(chain, 1, Min(hop + 1, Len(chain)))

(* C1: when the formats written so far can represent the image, no write   *)
(* or parse fails, and every image read back equals the original image     *)
(* (same entry point, same (start, bytes) pairs), through the chains       *)
(* I16 -> I32 -> I16 and I32 -> I16 -> I32.                                *)
C1_RoundTrip ==
    (\A i \in 1..Len(FormatsUsed) : CanRepresent(hex_obj_in, FormatsUsed[i]))
        => /\ error = "none"
           /\ hop >= 1 => /\ self_data = hex_obj_in.data
                          /\ self_entry = hex_obj_in.entry_point

(* the range being generated reaches across the end of the window it       *)
(* starts in                                                               *)
CrossesWindow ==
    /\ chunk # <<>>
    /\ (start_address \div 65536) # ((start_address + Len(chunk) - 1) \div 65536)

(* parse_file with its defaults over the given lines *)
RECURSIVE ParseAll(_, _)
ParseAll(st, lines) ==
    IF lines = <<>> \/ st.error # "none" THEN st
    ELSE ParseAll(parse_record(st, FALSE, StripWhitespace(Head(lines))), Tail(lines))

ReadBack(lines) ==
    ParseAll([sd |-> [dict |-> EmptyDict, keys |-> <<>>], hex_format |-> "auto",
              encountered_eof |-> FALSE, address_offset |-> 0,
              entry_point |-> None, error |-> "none", merged |-> None], lines)

DataRecordCount(lines) ==
    Cardinality({i \in 1..Len(lines) : Slice(lines[i], 7, 9) = <<"0", "0">>})

(* the ranges write has generated so far *)
RangesWritten == [k \in {self_keys[i] : i \in 1..kidx} |-> self_data[k]]

(* C2: while a range that crosses a 64KiB boundary is generated, no        *)
(* iteration raises; an iteration that emits an extended-address record    *)
(* advances the offset by exactly 0x10000 with the data emitted so far     *)
(* ending exactly at the new offset; and when the generator is exhausted   *)
(* the file holds at least two data records and its records, placed at     *)
(* their absolute addresses, give back the ranges written.                 *)
C2_WindowBoundary ==
    [][/\ (pc = "while" /\ CrossesWindow /\ index < Len(chunk))
          => /\ error' = "none"
             /\ applied_offset' # applied_offset
                   => /\ applied_offset' = applied_offset + 65536
                      /\ start_address + index' = applied_offset'
       /\ (pc = "while" /\ CrossesWindow /\ pc' = "write")
          => /\ DataRecordCount(file') >= 2
             /\ ReadBack(file').error = "none"
             /\ ReadBack(file').sd.dict = RangesWritten]_vars

(* ------------------------------------------------------------------ *)
(* The order of the lines of a written file                            *)
(* ------------------------------------------------------------------ *)

(* the record type digits of a line of the file *)
LineType(line) == Int16(TypeText(StripWhitespace(line)))

(* the absolute start addresses of the data records of lines, read with   *)
(* the window that the extended-address records before them select        *)
RECURSIVE AbsStarts(_, _)
AbsStarts(lines, window) ==
    IF lines = <<>> THEN <<>>
    ELSE LET rec == StripWhitespace(Head(lines))
             t == Int16(TypeText(rec))
         IN  IF t = 0
             THEN <<window + Int16(AddressText(rec))>> \o AbsStarts(Tail(lines), window)
             ELSE IF t = 2
             THEN AbsStarts(Tail(lines), OffsetI16(Int16(DataText(rec))))
             ELSE IF t = 4
             THEN AbsStarts(Tail(lines), OffsetI32(Int16(DataText(rec))))
             ELSE AbsStarts(Tail(lines), window)

(* the file holds data and extended-address records only *)
OnlyDataAndOffsets(lines) == \A i \in 1..Len(lines) : LineType(lines[i]) \in {0, 2, 4}

(* C11: while write runs, the file holds data and extended-address        *)
(* records only, the data records in ascending order of address; the      *)
(* entry-point record comes after all of them, exactly one when the image  *)
(* has an entry point and none otherwise; the finished file ends with the  *)
(* literal :00000001FF, which occurs once and last.                        *)
C11_OutputOrdering ==
    LET n == Len(file)
        eof == <<":", "0", "0", "0", "0", "0", "0", "0", "1", "F", "F", "\n">>
    IN  /\ pc \in {"write", "generate_data_records", "while", "write_entry"}
            => /\ OnlyDataAndOffsets(file)
               /\ StrictlyAscending(AbsStarts(file, 0))
        /\ pc = "write_eof"
            => IF self_entry = None
               THEN OnlyDataAndOffsets(file)
               ELSE /\ n >= 1
                    /\ LineType(file[n]) \in {3, 5}
                    /\ OnlyDataAndOffsets(SubSeq(file, 1, n - 1))
        /\ pc = "read_from_file"
            => /\ n >= 1
               /\ file[n] = eof
               /\ \A i \in 1..(n - 1) : file[i] # eof /\ LineType(file[i]) # 1
               /\ StrictlyAscending(AbsStarts(file, 0))
               /\ IF self_entry = None
                  THEN OnlyDataAndOffsets(SubSeq(file, 1, n - 1))
                  ELSE /\ n >= 2
                       /\ LineType(file[n - 1]) \in {3, 5}
                       /\ OnlyDataAndOffsets(SubSeq(file, 1, n - 2))

(* a finished file with data records, an extended-address record and the  *)
(* entry-point record                                                      *)
C11_Witness ==
    /\ pc = "read_from_file"
    /\ lineno = 0
    /\ self_entry # None
    /\ Len(self_keys) = 2
    /\ Len(file) >= 5
    /\ \E i \in 1..Len(file) : LineType(file[i]) \in {2, 4}
    /\ LineType(file[Len(file)]) = 1

(* ------------------------------------------------------------------ *)
(* write with a target format that is neither I16 nor I32              *)
(* ------------------------------------------------------------------ *)

(* hex_format arguments of write other than "I16" and "I32": the default  *)
(* of parse ("auto"), None and an unknown name                            *)
InvalidFormats == {"auto", "None", "I8"}

InitTarget ==
    /\ \E d \in OneRange \cup TwoRanges : \E e \in EntryPoints :
          /\ hex_obj_in = [data |-> d, entry_point |-> e]
          /\ self_data = SortedDictInit(d).dict
          /\ self_keys = SortedDictInit(d).keys
          /\ self_entry = e
    /\ \E f \in InvalidFormats : chain = <<f>>
    /\ line_length \in LineLengths
    /\ hop = 0
    /\ file = <<>>
    /\ offset = 0
    /\ kidx = 0
    /\ start_address = 0
    /\ chunk = <<>>
    /\ index = 0
    /\ applied_offset = 0
    /\ pc = "write"
    /\ error = "none"
    /\ nops = 0
    /\ data = EmptyDict
    /\ keys = <<>>
    /\ new_entry = None
    /\ ParseIdle
    /\ FindIdle

SpecTarget == InitTarget /\ [][Next]_vars

(* C12: a write whose target format is neither I16 nor I32 fails with     *)
(* InvalidTargetFormat for every image: it raises nothing else and never  *)
(* gets as far as the end-of-file record.                                 *)
C12_InvalidTargetFormat ==
    chain[Min(hop + 1, Len(chain))] \notin {"I16", "I32"}
        => /\ error \in {"none", "InvalidTargetFormat"}
           /\ pc \notin {"write_eof", "read_from_file", "done"}

(* ------------------------------------------------------------------ *)
(* Extended-address records                                            *)
(* ------------------------------------------------------------------ *)

(* the lines a step has added to the file *)
LinesAdded == SubSeq(file', Len(file) + 1, Len(file'))

(* a line just written is an extended-address record *)
IsExtendedAddress(line) == Slice(line, 7, 9) \in {<<"0", "2">>, <<"0", "4">>}

(* C13: every extended-address record write emits is the 15 characters    *)
(* :02000004 or :02000002, four hexadecimal digits of payload and the      *)
(* checksum, the payload being the new offset >> 16 for I32 and >> 4 for   *)
(* I16; and a write to I16 never takes an offset of 0x100000 or more, it   *)
(* fails with AddressOutOfRange.                                           *)
C13_ExtendedAddressPayload ==
    [][(pc \in {"generate_data_records", "while"} /\ TargetFormat \in {"I16", "I32"})
          => /\ \A i \in 1..Len(LinesAdded) :
                  IsExtendedAddress(LinesAdded[i])
                      => LET rec == StripWhitespace(LinesAdded[i])
                         IN  /\ Len(rec) = 15
                             /\ TypeText(rec) = IF TargetFormat = "I32"
                                                THEN <<"0", "4">> ELSE <<"0", "2">>
                             /\ Int16(Slice(rec, 9, 13))
                                   = IF TargetFormat = "I32"
                                     THEN offset' \div 65536 ELSE offset' \div 16
             /\ (TargetFormat = "I16" /\ error' = "none") => offset' < 1048576]_vars

(* ------------------------------------------------------------------ *)
(* The entry point of an I16 file                                      *)
(* ------------------------------------------------------------------ *)

(* C14: when write to I16 comes to an image's entry point e, it fails     *)
(* with EntryPointOutOfRange, writing nothing, exactly when e >> 16 is     *)
(* above 0xF; otherwise it writes one type-3 record whose payload is the   *)
(* word (e >> 16) << 12 followed by the word e & 0xFFFF, and parse reads   *)
(* the entry point e from that record.                                     *)
C14_EntryPointI16 ==
    [][(pc = "write_entry" /\ TargetFormat = "I16" /\ self_entry # None)
          => LET e == self_entry[1]
                 rec == StripWhitespace(file'[Len(file')])
             IN  IF e \div 65536 > 15
                 THEN error' = "EntryPointOutOfRange" /\ file' = file
                 ELSE /\ error' = "none"
                      /\ Len(file') = Len(file) + 1
                      /\ Len(rec) = 19
                      /\ Slice(rec, 0, 9) = <<":", "0", "4", "0", "0", "0", "0", "0", "3">>
                      /\ Int16(Slice(rec, 9, 13)) = (e \div 65536) * 4096
                      /\ Int16(Slice(rec, 13, 17)) = e % 65536
                      /\ ReadBack(<<file'[Len(file')]>>).error = "none"
                      /\ ReadBack(<<file'[Len(file')]>>).entry_point = Some(e)]_vars

(* the type-3 record of the entry point 0xFFFFF, the largest with a       *)
(* segment of 0xF, has just been written to an I16 file                    *)
C14_Witness ==
    /\ pc = "write_eof"
    /\ chain[Min(hop + 1, Len(chain))] = "I16"
    /\ self_entry = Some(1048575)
    /\ file # <<>>
    /\ LineType(file[Len(file)]) = 3

(* ------------------------------------------------------------------ *)
(* Lines that are not records                                          *)
(* ------------------------------------------------------------------ *)

(* the stripped line does not start with a colon, or it is shorter than   *)
(* the 11 characters of an empty record plus two for each byte it declares *)
Malformed(rec) ==
    \/ rec = <<>>
    \/ rec[1] # ":"
    \/ Len(rec) < 11
    \/ IntOk(ByteCountText(rec)) /\ Len(rec) < 11 + (2 * Int16(ByteCountText(rec)))

(* C15: before the end-of-file record, parse fails with MalformedRecord   *)
(* on every line that, stripped, is empty, does not start with a colon or  *)
(* is shorter than 11 + 2 * byte_count characters, and the line adds       *)
(* nothing to the image.                                                   *)
C15_MalformedRecord ==
    [][(Consumed /\ ~encountered_eof /\ Malformed(record'))
          => /\ error' = "MalformedRecord"
             /\ data' = data
             /\ keys' = keys
             /\ address_offset' = address_offset
             /\ entry_point' = entry_point]_vars

(* ------------------------------------------------------------------ *)
(* Checksums                                                           *)
(* ------------------------------------------------------------------ *)

(* the record is a colon and whole bytes, checksum included, that sum to  *)
(* 0 modulo 256                                                            *)
SumsToZero(rec) ==
    /\ Len(rec) % 2 = 1
    /\ HexTextOk(Slice(rec, 1, Len(rec)))
    /\ SumBytes(split_string2(Slice(rec, 1, Len(rec)))) % 256 = 0

(* the test of parse_file line 213 passes *)
ChecksumAccepted(rec) ==
    /\ IntOk(LastTwo(rec))
    /\ HexTextOk(Body(rec))
    /\ Int16(LastTwo(rec)) = generate_checksum(Body(rec))

(* C16: every record write has put in the file ends with the two's-       *)
(* complement checksum of its bytes, so that all its bytes, checksum       *)
(* included, sum to 0 modulo 256 and the parser's checksum test accepts    *)
(* it; a line of the file whose last two digits differ from the computed   *)
(* checksum is refused with ChecksumMismatch.                              *)
C16_Checksum ==
    /\ \A i \in 1..Len(file) :
          /\ SumsToZero(StripWhitespace(file[i]))
          /\ ChecksumAccepted(StripWhitespace(file[i]))
    /\ (pc = "read_from_file" /\ lineno >= 1 /\ error = "none")
          => ChecksumAccepted(record)
    /\ (pc = "read_from_file" /\ error = "ChecksumMismatch")
          => ~ChecksumAccepted(record)

-----------------------------------------------------------------------------
(* test_gt: find_lt and find_gt against the linear scans of the test *)

MaxVal == 2

MaxListLen == 3

(* the values of test_list and, one further on each side, the search terms *)
Vals == (0 - MaxVal)..MaxVal

(* sorted([random.randint(...) for i in range(n)]): the sorted lists, equal *)
(* values included                                                          *)
SortedLists ==
    {s \in UNION {[1..n -> Vals] : n \in 0..MaxListLen} :
        \A i \in 1..(Len(s) - 1) : s[i] <= s[i + 1]}

(* find_prev of test_gt: the last element before the first one >= num *)
RECURSIVE FindPrevFrom(_, _, _)
FindPrevFrom(l, number, last) ==
    IF l = <<>> THEN last
    ELSE IF Head(l) < number THEN FindPrevFrom(Tail(l), number, Some(Head(l)))
    ELSE last

find_prev(l, number) == FindPrevFrom(l, number, None)

(* find_next of test_gt: the first element > num *)
RECURSIVE find_next(_, _)
find_next(l, number) ==
    IF l = <<>> THEN None
    ELSE IF Head(l) > number THEN Some(Head(l))
    ELSE find_next(Tail(l), number)

InitFind ==
    /\ test_list \in SortedLists
    /\ num = (0 - MaxVal) - 1
    /\ found_lt = None
    /\ found_gt = None
    /\ data = EmptyDict
    /\ keys = <<>>
    /\ new_entry = None
    /\ error = "none"
    /\ nops = 0
    /\ pc = "test_gt"
    /\ ParseIdle
    /\ WriteIdle

(* one iteration of the loop of test_gt *)
TestGt ==
    /\ pc = "test_gt"
    /\ num <= MaxVal + 1
    /\ found_lt' = find_lt(test_list, num)
    /\ found_gt' = find_gt(test_list, num)
    /\ num' = num + 1
    /\ UNCHANGED <<mapVars, nops, pc, parseVars, writeVars, testVars, test_list>>

NextFind == TestGt

SpecFind == InitFind /\ [][NextFind]_vars

(* the elements of l *)
Elements(l) == {l[i] : i \in 1..Len(l)}

(* the greatest member of S, or None when S is empty *)
Greatest(S) == IF S = {} THEN None ELSE Some(CHOOSE v \in S : \A w \in S : w <= v)

(* the least member of S, or None when S is empty *)
Least(S) == IF S = {} THEN None ELSE Some(CHOOSE v \in S : \A w \in S : v <= w)

(* C17: on every sorted list l and search term x, find_lt returns the     *)
(* greatest element of l strictly below x and find_gt the least element    *)
(* strictly above x, None when there is none: what the linear scans        *)
(* find_prev and find_next return.                                         *)
C17_FindNeighbours ==
    [][(pc = "test_gt" /\ num' = num + 1)
          => /\ found_lt' = Greatest({v \in Elements(test_list) : v < num})
             /\ found_gt' = Least({v \in Elements(test_list) : v > num})
             /\ found_lt' = find_prev(test_list, num)
             /\ found_gt' = find_next(test_list, num)]_vars

(* a list was searched for its middle element, and the elements on both   *)
(* sides of it were found                                                  *)
C17_Witness ==
    /\ pc = "test_gt"
    /\ Len(test_list) = 3
    /\ test_list[1] < test_list[2]
    /\ test_list[2] < test_list[3]
    /\ num = test_list[2] + 1
    /\ found_lt = Some(test_list[1])
    /\ found_gt = Some(test_list[3])

-----------------------------------------------------------------------------
(* The worked example of the documentation *)

(* the image parse returns holds exactly "Hello, world!" at 0xAA0000, has *)
(* no entry point, and the format handed back is I32                       *)
HelloImage ==
    /\ detected_format = Some("I32")
    /\ entry_point = None
    /\ keys = <<11141120>>
    /\ DOMAIN data = {11141120}
    /\ data[11141120] = Hello

(* C18 as printed: parsing :0200000400AAFA, :0A000000 followed by the     *)
(* thirteen bytes of "Hello, world!", and :00000001FF under Auto succeeds  *)
(* and returns the sub-format I32, no entry point and the single range     *)
(* 0xAA0000 -> "Hello, world!".                                            *)
C18_ScenarioPrinted ==
    file = ScenarioPrinted
        => /\ error = "none"
           /\ pc = "returned" => HelloImage

(* C18: parsing :0200000400AA50, :0D000000 followed by the thirteen bytes *)
(* of "Hello, world!" and the checksum 6A, and :00000001FF under Auto      *)
(* succeeds and returns the sub-format I32, no entry point and the single  *)
(* range 0xAA0000 -> "Hello, world!".                                      *)
C18_ScenarioChecked ==
    file = ScenarioChecked
        => /\ error = "none"
           /\ pc = "returned" => HelloImage

(* parse has returned from the three lines with their checksums *)
C18_Witness ==
    /\ file = ScenarioChecked
    /\ pc = "returned"
    /\ lineno = 3
    /\ encountered_eof
    /\ file[1] = <<":", "0", "2", "0", "0", "0", "0", "0", "4", "0", "0", "A", "A", "5", "0">>
    /\ SubSeq(file[2], 1, 9) = <<":", "0", "D", "0", "0", "0", "0", "0", "0">>
    /\ LastTwo(file[2]) = <<"6", "A">>

-----------------------------------------------------------------------------
(* A range that closes the gap between two others *)

(* the entry about to be merged ends where the range at n starts and      *)
(* starts where the range at p ends, none of the three being empty, in a   *)
(* map whose key list is in order                                          *)
ClosesGap(p, e, n) ==
    /\ StrictlyAscending(keys)
    /\ {keys[i] : i \in 1..Len(keys)} = DOMAIN data
    /\ p \in DOMAIN data
    /\ n \in DOMAIN data
    /\ data[p] # <<>>
    /\ data[n] # <<>>
    /\ e[2] # <<>>
    /\ p < e[1]
    /\ p + Len(data[p]) = e[1]
    /\ e[1] + Len(e[2]) = n

(* C19: merging a range that touches its predecessor at p and its         *)
(* successor at n leaves one entry at p holding the predecessor's bytes,   *)
(* the new bytes and the successor's bytes in that order; n is no longer   *)
(* in the map, every other range is as it was, and no byte is lost.        *)
C19_DoubleMerge ==
    [][\A p \in DOMAIN data : \A n \in DOMAIN data :
          (new_entry' # None /\ ClosesGap(p, new_entry'[1], n))
              => /\ error' = "none"
                 /\ DOMAIN data' = DOMAIN data \ {n}
                 /\ data'[p] = (data[p] \o new_entry'[1][2]) \o data[n]
                 /\ \A k \in DOMAIN data \ {p, n} : data'[k] = data[k]]_vars

-----------------------------------------------------------------------------
(* The window chosen for a range that starts outside the current one *)

(* C20: when a range starts above running offset + 0xFFFF, the generator  *)
(* first emits one extended-address record and nothing else, the offset R  *)
(* it selects is a multiple of 0x10000 with R <= start_address <           *)
(* R + 0x10000, and the step raises no error.                              *)
C20_WindowSelection ==
    [][(pc = "generate_data_records" /\ TargetFormat \in {"I16", "I32"}
        /\ start_address > offset + 65535
        /\ (TargetFormat = "I16" => start_address < 1048576))
          => /\ error' = "none"
             /\ Len(file') = Len(file) + 1
             /\ IsExtendedAddress(file'[Len(file')])
             /\ applied_offset' % 65536 = 0
             /\ applied_offset' <= start_address
             /\ start_address < applied_offset' + 65536
             /\ offset' = applied_offset']_vars

-----------------------------------------------------------------------------
(* The data records of a write *)

(* a line just written is a data record *)
IsDataRecord(line) == Slice(line, 7, 9) = <<"0", "0">>

(* C21: every data record a write emits has a four-digit address field    *)
(* (0..0xFFFF), between 1 and line_length payload bytes, address plus      *)
(* byte count at most 0x10000, and the running offset (the offset of the   *)
(* last extended-address record generated, 0 if none, chained from range   *)
(* to range) plus its address is the absolute address of its first         *)
(* payload byte, the payload being the bytes of the range from there on;   *)
(* the running offset never decreases while the ranges are written.        *)
C21_DataRecordInvariant ==
    [][/\ (pc = "while" /\ TargetFormat \in {"I16", "I32"})
          => /\ offset = applied_offset
             /\ \A i \in 1..Len(LinesAdded) :
                  IsDataRecord(LinesAdded[i])
                      => LET rec == StripWhitespace(LinesAdded[i])
                             byte_count == Int16(ByteCountText(rec))
                             address == Int16(AddressText(rec))
                         IN  /\ i = 1
                             /\ Len(rec) = 11 + (2 * byte_count)
                             /\ address \in 0..65535
                             /\ byte_count \in 1..line_length
                             /\ address + byte_count <= 65536
                             /\ offset + address = start_address + index
                             /\ BytesOf(DataText(rec))
                                   = SubSeq(chunk, index + 1, index + byte_count)
                             /\ index' = index + byte_count
       /\ (pc \in {"write", "generate_data_records", "while"}
           /\ TargetFormat \in {"I16", "I32"})
          => /\ offset' >= offset
             /\ (pc # "while") => \A i \in 1..Len(LinesAdded) :
                                      ~IsDataRecord(LinesAdded[i])]_vars

(* the generator has just emitted a data record of the second range of an *)
(* image, in a window above the first                                      *)
C21_Witness ==
    /\ pc = "while"
    /\ error = "none"
    /\ kidx = 2
    /\ offset >= 65536
    /\ index > 0
    /\ file # <<>>
    /\ IsDataRecord(file[Len(file)])
    /\ offset + Int16(AddressText(file[Len(file)])) + Int16(ByteCountText(file[Len(file)]))
          = start_address + index

-----------------------------------------------------------------------------
(* A merge that is refused *)

(* C22: a merge_data call that raises for a duplicate start address or    *)
(* for an overlap leaves the map as it was before the call: the same       *)
(* (key, bytes) pairs and the same ordered key list.                       *)
C22_RefusedMergeUnchanged ==
    [][(new_entry' # None /\ error' \in {"DuplicateAddress", "OverlapError"})
          => /\ data' = data
             /\ keys' = keys]_vars

(* a range that touches its predecessor and runs into its successor has   *)
(* been refused, and the map still holds both as they were                 *)
C22_Witness ==
    /\ error = "OverlapError"
    /\ new_entry # None
    /\ Len(keys) = 2
    /\ DOMAIN data = {keys[1], keys[2]}
    /\ keys[1] + Len(data[keys[1]]) = new_entry[1][1]
    /\ new_entry[1][1] + Len(new_entry[1][2]) > keys[2]

-----------------------------------------------------------------------------
(* Termination of write *)

(* one write of an image, read back once, with the shortest line length   *)
(* among those tried                                                       *)
LiveLineLengths == {1, 5, 16}

InitLive ==
    /\ \E d \in OneRange \cup TwoRanges : \E e \in EntryPoints :
          /\ hex_obj_in = [data |-> d, entry_point |-> e]
          /\ self_data = SortedDictInit(d).dict
          /\ self_keys = SortedDictInit(d).keys
          /\ self_entry = e
    /\ \E f \in {"I16", "I32"} : chain = <<f>>
    /\ line_length \in LiveLineLengths
    /\ hop = 0
    /\ file = <<>>
    /\ offset = 0
    /\ kidx = 0
    /\ start_address = 0
    /\ chunk = <<>>
    /\ index = 0
    /\ applied_offset = 0
    /\ pc = "write"
    /\ error = "none"
    /\ nops = 0
    /\ data = EmptyDict
    /\ keys = <<>>
    /\ new_entry = None
    /\ ParseIdle
    /\ FindIdle

(* write is running: it has neither returned nor raised *)
WriteActive ==
    /\ pc \in {"write", "generate_data_records", "while", "write_entry", "write_eof"}
    /\ error = "none"

(* write is sequential code: while it runs, the interpreter keeps taking   *)
(* its steps. This is weak fairness of Next over the run of write,         *)
(* []<>~ENABLED <<Next>>_vars \/ []<><<Next>>_vars, with the states where  *)
(* write has returned or raised written for the first disjunct             *)
SpecLive == InitLive /\ [][Next]_vars /\ ([]<>(~WriteActive) \/ []<><<Next>>_vars)

(* the iteration the while loop is about to make changes index or          *)
(* applied_offset, or raises                                               *)
LoopProgress ==
    (pc = "while" /\ error = "none" /\ index < Len(chunk))
        => LET r == GenIteration(start_address, chunk, index, applied_offset,
                                 TargetFormat, line_length)
           IN  \/ r.index > index
               \/ r.applied_offset > applied_offset
               \/ r.error # "none"

(* C23: every iteration of the chunking loop consumes at least one byte   *)
(* of the chunk, advances the running offset or raises, so that no range   *)
(* makes the loop spin, and every write comes to an end, by returning or   *)
(* by raising.                                                             *)
C23_Termination ==
    /\ []LoopProgress
    /\ [][(pc = "while" /\ pc' = "while")
             => \/ index' > index
                \/ applied_offset' > applied_offset
                \/ error' # "none"]_vars
    /\ WriteActive ~> ~WriteActive

(* a write with one byte to the line has returned after going through an  *)
(* iteration that only moved the window                                    *)
C23_Witness ==
    /\ pc = "read_from_file"
    /\ lineno = 0
    /\ error = "none"
    /\ line_length = 1
    /\ offset >= 65536
    /\ \E i \in 2..(Len(file) - 1) :
          /\ IsDataRecord(file[i - 1])
          /\ IsExtendedAddress(file[i])
          /\ IsDataRecord(file[i + 1])

====
